---- MODULE Spec2Model ----
(***************************************************************************)
(* A model of the `hazmat::suit` attribute macro (hazmat-macros/src/lib.rs) *)
(* and of the fixture that uses it (tests/simple.rs).                      *)
(*                                                                         *)
(* Syntax trees are records that keep the field names of `syn`:            *)
(*   Option<T>      a sequence of length 0 (None) or 1 (Some)              *)
(*   Punctuated<T>  a sequence                                             *)
(*   syn::Ident     a string; format!("{}Cap", ident) is ident \o "Cap"    *)
(*   TokenStream    a sequence of items                                    *)
(* `attrs` counts the `#[hazmat::suit]` attributes still attached to an    *)
(* item: the host strips one, hands the item to `suit`, and splices the   *)
(* returned tokens back in place of the item.                              *)
(***************************************************************************)
EXTENDS Naturals, Sequences, FiniteSets, TLC

VARIABLES
    unit,      \* the two annotated declarations of the compilation unit, as written
    cur,       \* per declaration: the tokens now standing in its place
    applied,   \* per declaration: how many times `suit` has been invoked on it
    first,     \* which declaration the host expanded first ("none" before any)
    held,      \* held[l][m]: capability values code at l holds that code at m constructed
    rejected,  \* construction expressions <<location, form>> the compiler rejected
    calls,     \* suited-method calls made: <<caller, maker of the capability passed>>
    pc,        \* the fixture: "src", "compiled", "compile_error", "once", "done", "panic"
    capExpr,   \* the fixture: how add_twice writes the capability value
    lhs,       \* the fixture: the field of `a`
    rhs,       \* the fixture: the field of `b`
    acc,       \* the fixture: the field of the value add_twice is building
    ncalls     \* the fixture: add_once invocations made by add_twice

macroVars == <<unit, cur, applied, first>>
useVars == <<held, rejected, calls>>
testVars == <<pc, capExpr, lhs, rhs, acc, ncalls>>
vars == <<unit, cur, applied, first, held, rejected, calls, pc, capExpr, lhs, rhs, acc, ncalls>>

(***************************************************************************)
(* Bounds                                                                  *)
(***************************************************************************)
MaxItems == 2      \* items in a trait or impl body
MaxAttrs == 2      \* `#[hazmat::suit]` attributes stacked on one declaration
MaxHeld == 1       \* capability values of one maker one location holds at a time

(***************************************************************************)
(* Syntax trees                                                            *)
(***************************************************************************)
Decls == {"a", "b"}

Last(s) == s[Len(s)]
Front(s) == SubSeq(s, 1, Len(s) - 1)

RECURSIVE SeqsUpTo(_, _)
SeqsUpTo(S, n) ==
    IF n = 0 THEN {<<>>}
    ELSE LET shorter == SeqsUpTo(S, n - 1)
         IN  shorter \cup {Append(s, x) : s \in {t \in shorter : Len(t) = n - 1}, x \in S}

\* syn::Path
Path(lc, segs) == [leading_colon |-> lc, segments |-> segs]
\* syn::PathSegment: an identifier and its generic arguments ("" when none)
Seg(id) == [ident |-> id, arguments |-> ""]
SegArgs(id, args) == [ident |-> id, arguments |-> args]
\* syn::FnArg::Receiver and syn::FnArg::Typed(syn::PatType)
Receiver == [arg |-> "Receiver", attrs |-> <<>>, pat |-> "self", ty |-> Path(FALSE, <<>>)]
PatType(p, t) == [arg |-> "Typed", attrs |-> <<>>, pat |-> p, ty |-> t]

RefSelf == Path(FALSE, <<Seg("&Self")>>)
U32 == Path(FALSE, <<Seg("u32")>>)

\* syn::TraitItem (Method with its optional default body, Type) and syn::ImplItem
Method(name, inputs, output, body) ==
    [item |-> "Method", ident |-> name, inputs |-> inputs, output |-> output, block |-> body]
AssocType(name) ==
    [item |-> "Type", ident |-> name, inputs |-> <<>>, output |-> "", block |-> <<>>]
AssocConst(name) ==
    [item |-> "Const", ident |-> name, inputs |-> <<>>, output |-> "", block |-> <<>>]

AddOnceSig == Method("add_once", <<Receiver, PatType("other", RefSelf)>>, "Self", <<>>)
AddOnceFn ==
    Method("add_once", <<Receiver, PatType("other", RefSelf)>>, "Self", <<"Self(self.0 + other.0)">>)

TraitItems ==
    { AddOnceSig,                                              \* receiver, no default
      Method("reset", <<>>, "", <<"{}">>),                      \* no parameters, default body
      Method("from_u32", <<PatType("n", U32)>>, "Self", <<>>),  \* no receiver
      AssocType("Output") }
ImplItems ==
    { AddOnceFn,
      Method("reset", <<>>, "", <<"{}">>),
      AssocConst("ZERO") }

\* syn::ItemTrait, syn::ItemImpl, and the other kinds of syn::Item
ItemTrait(n, vis, id, items) ==
    [kind |-> "Trait", attrs |-> n, non_exhaustive |-> FALSE, vis |-> vis, ident |-> id,
     generics |-> "", trait_ |-> <<>>, self_ty |-> "", fields |-> "", items |-> items]
ItemImpl(n, generics, tr, ty, items) ==
    [kind |-> "Impl", attrs |-> n, non_exhaustive |-> FALSE, vis |-> "", ident |-> "",
     generics |-> generics, trait_ |-> tr, self_ty |-> ty, fields |-> "", items |-> items]
ItemStruct(n, ne, vis, id, fields) ==
    [kind |-> "Struct", attrs |-> n, non_exhaustive |-> ne, vis |-> vis, ident |-> id,
     generics |-> "", trait_ |-> <<>>, self_ty |-> "", fields |-> fields, items |-> <<>>]
ItemFn(n, id) ==
    [kind |-> "Fn", attrs |-> n, non_exhaustive |-> FALSE, vis |-> "", ident |-> id,
     generics |-> "", trait_ |-> <<>>, self_ty |-> "", fields |-> "", items |-> <<>>]

TraitIdents == {"A", "_add_once", "AddOnce"}
TraitPaths ==
    { Path(FALSE, <<Seg("A")>>),
      Path(FALSE, <<Seg("traits"), Seg("AddOnce")>>),
      Path(TRUE, <<Seg("upstream_crate"), Seg("inner"), Seg("A1")>>),
      Path(FALSE, <<SegArgs("_add_once", "<T>")>>) }

AttrCounts == 1 .. MaxAttrs

Traits ==
    { ItemTrait(n, "pub", id, items) :
        n \in AttrCounts, id \in TraitIdents, items \in SeqsUpTo(TraitItems, MaxItems) }
TraitImpls ==
    { ItemImpl(n, "", <<p>>, "Num", items) :
        n \in AttrCounts, p \in TraitPaths, items \in SeqsUpTo(ImplItems, MaxItems) }
InherentImpls ==
    { ItemImpl(n, "", <<>>, "Num", items) :
        n \in AttrCounts, items \in {<<>>, <<AddOnceFn>>} }
OtherItems ==
    { ItemStruct(n, FALSE, "", "Num", "Tuple") : n \in AttrCounts }
        \cup { ItemFn(n, "test_high_level") : n \in AttrCounts }

Items == Traits \cup TraitImpls \cup InherentImpls \cup OtherItems

\* The declarations of tests/simple.rs and of the documentation examples
AddOnceTrait == ItemTrait(1, "pub", "AddOnce", <<AddOnceSig>>)
NumImpl ==
    ItemImpl(1, "", <<Path(FALSE, <<Seg("traits"), Seg("AddOnce")>>)>>, "Num", <<AddOnceFn>>)
Siblings ==
    { AddOnceTrait,
      NumImpl,
      ItemTrait(MaxAttrs, "pub", "A", <<AddOnceSig>>),
      ItemImpl(1, "", <<Path(FALSE, <<Seg("A")>>)>>, "Num", <<AddOnceFn>>),
      ItemImpl(1, "", <<>>, "Num", <<AddOnceFn>>),
      ItemStruct(1, FALSE, "", "Num", "Tuple") }

(***************************************************************************)
(* hazmat-macros/src/lib.rs                                                *)
(***************************************************************************)
\* a push that puts the new value first
push_front(p, value) == <<value>> \o p
\* a pop that drops nothing
pop_none(p) == p

\* Punctuated::push and Punctuated::pop: the new value goes last; pop drops the last
push(p, value) == Append(p, value)
pop(p) == IF Len(p) = 0 THEN p ELSE Front(p)

\* a name that numbers the capabilities of one compilation: state shared by invocations
format_cap_counted(ident) == IF first = "none" THEN ident \o "Cap" ELSE ident \o "Cap2"

\* format!("{}Cap", ident)
format_cap(ident) == ident \o "Cap"

\* parse_quote!(#cap_name) as a type: the path of the one identifier
ty_of_ident(id) == Path(FALSE, <<Seg(id)>>)

\* syn::PatType { attrs: vec![], pat: cap, colon_token, ty }
cap_arg(ty) == PatType("cap", ty)

\* a rewrite that skips a method already ending in `cap`
add_cap_once(items, ty) ==
    [k \in 1 .. Len(items) |->
        IF /\ items[k].item = "Method"
           /\ ~(Len(items[k].inputs) > 0 /\ items[k].inputs[Len(items[k].inputs)].pat = "cap")
        THEN [items[k] EXCEPT !.inputs = Append(@, PatType("cap", ty))]
        ELSE items[k]]
\* a rewrite that does not ask whether the item is a method
add_cap_every_item(items, ty) ==
    [k \in 1 .. Len(items) |-> [items[k] EXCEPT !.inputs = Append(@, PatType("cap", ty))]]

\* for item in &mut t.items { if let Method(method) = item { method.sig.inputs.push(..) } }
add_cap(items, ty) ==
    [k \in 1 .. Len(items) |->
        IF items[k].item = "Method"
        THEN [items[k] EXCEPT !.inputs = push(@, cap_arg(ty))]
        ELSE items[k]]

\* a marker without #[non_exhaustive]
cap_struct_exhaustive(cap_name) == ItemStruct(0, FALSE, "pub", cap_name, "Unit")

\* quote! { #[non_exhaustive] pub struct #cap_name; }
cap_struct(cap_name) == ItemStruct(0, TRUE, "pub", cap_name, "Unit")

\* an expansion that emits the marker after the trait
augment_trait_marker_last(t) ==
    LET cap_name == format_cap(t.ident)
    IN  << [t EXCEPT !.items = add_cap(@, ty_of_ident(cap_name))],
           cap_struct(cap_name) >>

augment_trait(t) ==
    LET cap_name == format_cap(t.ident)
    IN  << cap_struct(cap_name),
           [t EXCEPT !.items = add_cap(@, ty_of_ident(cap_name))] >>

\* an expansion that names the capability after the first segment of the path
augment_trait_impl_first_segment(t) ==
    LET trait_path == t.trait_[1]
        trait_name == trait_path.segments[1].ident
        cap_name == format_cap(trait_name)
        cap_path == [trait_path EXCEPT !.segments = push(pop(@), Seg(cap_name))]
    IN  << [t EXCEPT !.items = add_cap(@, cap_path)] >>

augment_trait_impl(t) ==
    LET trait_path == t.trait_[1]
        trait_name == Last(trait_path.segments).ident
        cap_name == format_cap(trait_name)
        cap_path == [trait_path EXCEPT !.segments = push(pop(@), Seg(cap_name))]
    IN  << [t EXCEPT !.items = add_cap(@, cap_path)] >>

ErrorMessage == "hazmat::suit should be applied to traits or trait impls"

\* syn::Error::new_spanned(item, message).into_compile_error()
compile_error(item, message) ==
    [kind |-> "CompileError", attrs |-> 0, message |-> message, span |-> item]

\* a dispatch that emits the rejected item next to the diagnostic
suit_keeps_item(item) ==
    IF item.kind = "Trait" THEN augment_trait(item)
    ELSE IF item.kind = "Impl" /\ Len(item.trait_) > 0 THEN augment_trait_impl(item)
    ELSE << item, compile_error(item, ErrorMessage) >>

suit(item) ==
    IF item.kind = "Trait" THEN augment_trait(item)
    ELSE IF item.kind = "Impl" /\ Len(item.trait_) > 0 THEN augment_trait_impl(item)
    ELSE << compile_error(item, ErrorMessage) >>

(***************************************************************************)
(* The host expands one attribute of one declaration: it strips the        *)
(* attribute, invokes `suit` on the item and splices the result in place.  *)
(***************************************************************************)
Expand(d) ==
    /\ Last(cur[d]).attrs > 0
    /\ LET item == [Last(cur[d]) EXCEPT !.attrs = @ - 1]
       IN  cur' = [cur EXCEPT ![d] = Front(@) \o suit(item)]
    /\ applied' = [applied EXCEPT ![d] = @ + 1]
    /\ first' = IF first = "none" THEN d ELSE first
    /\ UNCHANGED <<unit, useVars, testVars>>

ExpandAny == \E d \in Decls : Expand(d)


(***************************************************************************)
(* Where code is written: the module `traits` that declares the suited     *)
(* trait, the root module of the same crate (tests/simple.rs), and a       *)
(* downstream crate (the documentation's `MyNum`).                         *)
(***************************************************************************)
Locs == {"traits", "root", "downstream"}
DefLoc == "traits"
CrateOf == [traits |-> "fixture", root |-> "fixture", downstream |-> "downstream"]
\* the locations that implement the suited trait: Num (root) and MyNum (downstream)
Implementers == {"root", "downstream"}

\* how a construction expression is written: `AddOnceCap` or `AddOnceCap(())`
CapExprs == {"Path", "Call"}

\* The marker type the expansion of the fixture's trait puts into `traits`
Marker == augment_trait([AddOnceTrait EXCEPT !.attrs = 0])[1]

\* Whether code at l may name the constructor of struct s declared at DefLoc: a
\* `pub` constructor is visible everywhere, `#[non_exhaustive]` lowers it to the
\* declaring crate, and a private one stays in the declaring module.
CtorVisible(s, l) ==
    IF s.vis = "pub"
    THEN IF s.non_exhaustive THEN CrateOf[l] = CrateOf[DefLoc] ELSE TRUE
    ELSE l = DefLoc

\* Whether the expression form builds a value of s: the bare name for a struct
\* without fields, a call with one argument for a one-field tuple struct.
FormBuilds(s, form) ==
    \/ s.fields = "Unit" /\ form = "Path"
    \/ s.fields = "Tuple" /\ form = "Call"

Constructible(s, l, form) == s.kind = "Struct" /\ FormBuilds(s, form) /\ CtorVisible(s, l)

\* Code at l writes a construction expression for the marker type.
Construct(l, form) ==
    /\ IF Constructible(Marker, l, form)
       THEN /\ held[l][l] < MaxHeld
            /\ held' = [held EXCEPT ![l][l] = @ + 1]
            /\ UNCHANGED rejected
       ELSE /\ <<l, form>> \notin rejected
            /\ rejected' = rejected \cup {<<l, form>>}
            /\ UNCHANGED held
    /\ UNCHANGED <<calls, macroVars, testVars>>

\* Code at l calls the suited method of the implementation at i, passing a
\* capability value it holds; the value moves into the callee's `cap`.
CallSuited(l, m, i) ==
    /\ held[l][m] > 0
    /\ l = i \/ held[i][m] < MaxHeld
    /\ held' = [h \in Locs |-> [k \in Locs |->
                  IF k # m \/ l = i THEN held[h][k]
                  ELSE IF h = l THEN held[h][k] - 1
                  ELSE IF h = i THEN held[h][k] + 1
                  ELSE held[h][k]]]
    /\ calls' = calls \cup {<<l, m>>}
    /\ UNCHANGED <<rejected, macroVars, testVars>>

\* The suited method at i returns; its `cap` is dropped.
Return(i, m) ==
    /\ held[i][m] > 0
    /\ held' = [held EXCEPT ![i][m] = @ - 1]
    /\ UNCHANGED <<rejected, calls, macroVars, testVars>>

(***************************************************************************)
(* tests/simple.rs                                                         *)
(***************************************************************************)
\* A u32 is kept as its two 16-bit halves, [hi, lo], of value hi * Half + lo.
Half == 65536
Num(h, l) == [hi |-> h, lo |-> l]
FixtureValues ==
    { Num(0, 0), Num(0, 7), Num(0, 15), Num(0, 65535), Num(32768, 0), Num(65535, 65535) }

\* self.0 + other.0 at full width: the 32 low bits and whether the sum left u32
wide_add(x, y) ==
    LET lo == x.lo + y.lo
        hi == x.hi + y.hi + (lo \div Half)
    IN  [value |-> Num(hi % Half, lo % Half), overflow |-> hi >= Half]

\* The absolute path a type written in module `from` names; the types of the
\* fixture other than the marker are written alike on both sides.
Resolve(ty, from) ==
    IF Len(ty.segments) = 1 /\ ty.segments[1].ident = Marker.ident
    THEN <<from, ty.segments[1].ident>>
    ELSE [k \in 1 .. Len(ty.segments) |-> ty.segments[k].ident]

\* The rewritten implementation method has the rewritten trait method's signature.
SignaturesMatch ==
    LET tm == augment_trait([AddOnceTrait EXCEPT !.attrs = 0])[2].items[1]
        im == augment_trait_impl([NumImpl EXCEPT !.attrs = 0])[1].items[1]
    IN  /\ tm.ident = im.ident
        /\ tm.output = im.output
        /\ Len(tm.inputs) = Len(im.inputs)
        /\ \A k \in 1 .. Len(tm.inputs) :
              /\ tm.inputs[k].arg = im.inputs[k].arg
              /\ tm.inputs[k].pat = im.inputs[k].pat
              /\ Resolve(tm.inputs[k].ty, "traits") = Resolve(im.inputs[k].ty, "")

\* The expanded fixture is compiled: the signatures must agree and the capability
\* expressions of add_twice, written in `traits`, must build a marker value.
Compile ==
    /\ pc = "src"
    /\ pc' = IF SignaturesMatch /\ Constructible(Marker, DefLoc, capExpr)
             THEN "compiled" ELSE "compile_error"
    /\ UNCHANGED <<capExpr, lhs, rhs, acc, ncalls, macroVars, useVars>>

\* add_twice invokes add_once: Self(self.0 + other.0) on u32. A sum out of range
\* panics where overflow is checked and wraps where it is not.
AddOnce ==
    /\ pc \in {"compiled", "once"}
    /\ LET self0 == IF pc = "compiled" THEN lhs ELSE acc
           sum == wide_add(self0, rhs)
           next == IF pc = "compiled" THEN "once" ELSE "done"
       IN  \/ /\ ~sum.overflow
              /\ acc' = sum.value
              /\ pc' = next
           \/ /\ sum.overflow
              /\ acc' = sum.value
              /\ pc' = next
           \/ /\ sum.overflow
              /\ acc' = acc
              /\ pc' = "panic"
    /\ ncalls' = ncalls + 1
    /\ UNCHANGED <<capExpr, lhs, rhs, macroVars, useVars>>

IdleUse ==
    /\ held = [l \in Locs |-> [m \in Locs |-> 0]]
    /\ rejected = {}
    /\ calls = {}
IdleTest ==
    /\ pc = "src"
    /\ capExpr = "Call"
    /\ lhs = Num(0, 7)
    /\ rhs = Num(0, 15)
    /\ acc = Num(0, 0)
    /\ ncalls = 0

Init ==
    /\ unit \in [a : Items, b : Siblings]
    /\ cur = [d \in Decls |-> <<unit[d]>>]
    /\ applied = [d \in Decls |-> 0]
    /\ first = "none"
    /\ IdleUse
    /\ IdleTest

Next == ExpandAny

Spec == Init /\ [][Next]_vars

IdleMacro ==
    /\ unit = [a |-> AddOnceTrait, b |-> NumImpl]
    /\ cur = [d \in Decls |-> <<unit[d]>>]
    /\ applied = [d \in Decls |-> 0]
    /\ first = "none"

InitUse == IdleMacro /\ IdleUse /\ IdleTest

NextUse ==
    \/ \E l \in Locs, form \in CapExprs : Construct(l, form)
    \/ \E l, m \in Locs, i \in Implementers : CallSuited(l, m, i)
    \/ \E i, m \in Locs : Return(i, m)

SpecUse == InitUse /\ [][NextUse]_vars

InitTest ==
    /\ IdleMacro
    /\ IdleUse
    /\ pc = "src"
    /\ capExpr \in CapExprs
    /\ lhs \in FixtureValues
    /\ rhs \in FixtureValues
    /\ acc = Num(0, 0)
    /\ ncalls = 0

NextTest == Compile \/ AddOnce

SpecTest == InitTest /\ [][NextTest]_vars

(***************************************************************************)
(* Properties of the expansion                                             *)
(***************************************************************************)
IsTraitImpl(item) == item.kind = "Impl" /\ Len(item.trait_) > 0
MethodIdx(items) == {k \in 1 .. Len(items) : items[k].item = "Method"}
\* the declaration as the first invocation of `suit` received it
Given(d) == [unit[d] EXCEPT !.attrs = @ - 1]
OnceTrait(d) == applied[d] = 1 /\ unit[d].kind = "Trait"
OnceImpl(d) == applied[d] = 1 /\ IsTraitImpl(unit[d])
\* `ins` is `orig` followed by exactly one parameter `cap` of type `ty`
Extended(ins, orig, ty) ==
    /\ Len(ins) = Len(orig) + 1
    /\ SubSeq(ins, 1, Len(orig)) = orig
    /\ ins[Len(ins)].arg = "Typed"
    /\ ins[Len(ins)].pat = "cap"
    /\ ins[Len(ins)].ty = ty

\* C1: a suited trait keeps its N methods in order, and every method's parameter
\* list is the original list followed by exactly one parameter `cap` whose type is
\* the unqualified name <TraitName>Cap.
C1_TraitMethodsGainCap ==
    \A d \in Decls :
        OnceTrait(d) =>
            LET t == Last(cur[d])
                o == unit[d]
            IN  /\ t.kind = "Trait"
                /\ Len(t.items) = Len(o.items)
                /\ MethodIdx(t.items) = MethodIdx(o.items)
                /\ \A k \in MethodIdx(o.items) :
                      /\ t.items[k].ident = o.items[k].ident
                      /\ Extended(t.items[k].inputs, o.items[k].inputs,
                                  [leading_colon |-> FALSE,
                                   segments |-> <<[ident |-> o.ident \o "Cap", arguments |-> ""]>>])

\* a suited trait with a parameterless default method and a receiverless method
C1_Witness ==
    /\ OnceTrait("a")
    /\ Len(unit.a.items) = 2
    /\ \E k \in 1 .. 2 :
          /\ unit.a.items[k].item = "Method"
          /\ Len(unit.a.items[k].inputs) = 0
          /\ Len(unit.a.items[k].block) = 1
          /\ Len(cur.a[2].items[k].inputs) = 1
    /\ \E k \in 1 .. 2 :
          /\ unit.a.items[k].item = "Method"
          /\ Len(unit.a.items[k].inputs) = 1
          /\ unit.a.items[k].inputs[1].arg = "Typed"

C3_ImplMethodsGainCap ==
    \A d \in Decls :
        OnceImpl(d) =>
            LET p == unit[d].trait_[1]
                n == Len(p.segments)
                capPath == [leading_colon |-> p.leading_colon,
                            segments |-> SubSeq(p.segments, 1, n - 1)
                                \o <<[ident |-> p.segments[n].ident \o "Cap", arguments |-> ""]>>]
                t == cur[d][1]
            IN  /\ Len(cur[d]) = 1
                /\ t.kind = "Impl"
                /\ Len(t.items) = Len(unit[d].items)
                /\ MethodIdx(t.items) = MethodIdx(unit[d].items)
                /\ \A k \in MethodIdx(t.items) :
                      /\ t.items[k].ident = unit[d].items[k].ident
                      /\ Extended(t.items[k].inputs, unit[d].items[k].inputs, capPath)

\* an implementation through a three-segment path with a leading `::`
C3_Witness ==
    /\ OnceImpl("a")
    /\ unit.a.trait_[1].leading_colon
    /\ Len(unit.a.trait_[1].segments) = 3
    /\ \E k \in MethodIdx(cur.a[1].items) :
          LET ins == cur.a[1].items[k].inputs
          IN  /\ Len(ins[Len(ins)].ty.segments) = 3
              /\ ins[Len(ins)].ty.segments[3].ident = "A1Cap"

\* C4: a declaration that is neither a trait nor an implementation of a named trait
\* yields only the diagnostic, located at the declaration; a trait or a trait
\* implementation never yields it.
C4_Rejection ==
    \A d \in Decls :
        applied[d] = 1 =>
            IF unit[d].kind = "Trait"
            THEN Len(cur[d]) = 2 /\ \A k \in 1 .. 2 : cur[d][k].kind # "CompileError"
            ELSE IF unit[d].kind = "Impl" /\ unit[d].trait_ # <<>>
            THEN Len(cur[d]) = 1 /\ cur[d][1].kind = "Impl"
            ELSE /\ Len(cur[d]) = 1
                 /\ cur[d][1].kind = "CompileError"
                 /\ cur[d][1].span = Given(d)

\* an inherent implementation with a method is rejected
C4_Witness ==
    /\ applied.a = 1
    /\ unit.a.kind = "Impl"
    /\ unit.a.trait_ = <<>>
    /\ Len(unit.a.items) = 1
    /\ cur.a[1].kind = "CompileError"

C8_NotIdempotent ==
    \A d \in Decls :
        (applied[d] = 2 /\ unit[d].kind = "Trait") =>
            /\ Len(cur[d]) = 3
            /\ cur[d][1].kind = "Struct"
            /\ cur[d][2] = cur[d][1]
            /\ cur[d][1].ident = unit[d].ident \o "Cap"
            /\ cur[d][3].kind = "Trait"
            /\ MethodIdx(cur[d][3].items) = MethodIdx(unit[d].items)
            /\ \A k \in MethodIdx(unit[d].items) :
                  LET ins == cur[d][3].items[k].inputs
                      n == Len(unit[d].items[k].inputs)
                  IN  /\ Len(ins) = n + 2
                      /\ SubSeq(ins, 1, n) = unit[d].items[k].inputs
                      /\ ins[n + 1].pat = "cap"
                      /\ ins[n + 2] = ins[n + 1]

C8_Witness ==
    /\ applied.a = 2
    /\ unit.a.kind = "Trait"
    /\ MethodIdx(unit.a.items) # {}
    /\ Len(cur.a) = 3

\* the type named by the `cap` parameter of the k-th item of a suited declaration
CapTyName(item, k) ==
    LET ins == item.items[k].inputs
        segs == ins[Len(ins)].ty.segments
    IN  segs[Len(segs)].ident

C9_WitnessRenamed ==
    /\ OnceTrait("b")
    /\ OnceImpl("a")
    /\ unit.b.ident = "A"
    /\ \E k \in MethodIdx(cur.a[1].items) : CapTyName(cur.a[1], k) = "A1Cap"

\* C10: the appended parameter is the only change: the declaration apart from its
\* items, the number and order of the items, every item that is not a method, and
\* every method apart from its parameter list are as written.
C10_Frame ==
    \A d \in Decls :
        (OnceTrait(d) \/ OnceImpl(d)) =>
            LET t == Last(cur[d])
                g == Given(d)
            IN  /\ [t EXCEPT !.items = g.items] = g
                /\ Len(t.items) = Len(g.items)
                /\ \A k \in 1 .. Len(g.items) :
                      IF g.items[k].item = "Method"
                      THEN /\ [t.items[k] EXCEPT !.inputs = g.items[k].inputs] = g.items[k]
                           /\ Len(t.items[k].inputs) = Len(g.items[k].inputs) + 1
                      ELSE t.items[k] = g.items[k]

\* a suited body that holds a method and an item that is not a method
C10_Witness ==
    /\ applied.a = 1
    /\ unit.a.kind \in {"Trait", "Impl"}
    /\ Len(unit.a.items) = 2
    /\ unit.a.items[1].item = "Method"
    /\ unit.a.items[2].item \in {"Type", "Const"}
    /\ Last(cur.a).items[2] = unit.a.items[2]
    /\ Last(cur.a).items[1] # unit.a.items[1]

(***************************************************************************)
(* Properties of the capability and of the fixture                         *)
(***************************************************************************)
InDefCrate(l) == CrateOf[l] = CrateOf[DefLoc]

\* C5, as claimed: a capability value is constructed only inside the scope that
\* declares the trait, and every suited call passes a value constructed there.
C5_OnlyDefiningScope ==
    /\ \A l, m \in Locs : held[l][m] > 0 => m = DefLoc
    /\ \A c \in calls : c[2] = DefLoc

\* C5, amended: a capability value is constructed only inside the crate that
\* declares the trait; code of another crate never holds a value it constructed,
\* and every suited call it makes passes a value the declaring crate constructed.
C5_OnlyDefiningCrate ==
    /\ \A l, m \in Locs : held[l][m] > 0 => InDefCrate(m)
    /\ \A l \in Locs : ~InDefCrate(l) => held[l][l] = 0
    /\ \A c \in calls : InDefCrate(c[2])

\* downstream code was refused the construction and was handed a value by `traits`
C5_Witness ==
    /\ <<"downstream", "Path">> \in rejected
    /\ held["downstream"]["traits"] > 0
    /\ <<"traits", "traits">> \in calls

\* C6: the fixture compiles with matching signatures, and add_twice invokes
\* add_once twice and returns a + 2 * b whenever that stays within u32.
C6_EndToEnd ==
    capExpr = "Call" =>
        /\ SignaturesMatch
        /\ pc # "compile_error"
        /\ LET lo == lhs.lo + 2 * rhs.lo
               hi == lhs.hi + 2 * rhs.hi + (lo \div Half)
           IN  (pc = "done" /\ hi < Half) =>
                   /\ acc = [hi |-> hi, lo |-> lo % Half]
                   /\ ncalls = 2

====
